---- MODULE Spec2Model ----
(***************************************************************************)
(* Session streaming client of ValidatePage (src/unnamed/part_001).        *)
(*                                                                         *)
(* The React state of the component (running, done, lines, result, error,  *)
(* wsStatus, idea, description, user, token, ...) and its two refs (idRef, *)
(* connRef) are the variables.  Every transport object the component ever  *)
(* created (WebSocket or EventSource) is an element of conns, with the     *)
(* values its callbacks captured when startResearch ran.  One action per   *)
(* handler or transport callback.                                          *)
(*                                                                         *)
(* Browser semantics used for the transports:                              *)
(*  - WebSocket: a connection that fails fires "error" and then "close"    *)
(*    (code 1006) in one task; a connection that merely closes fires       *)
(*    "close" with the code of the closing handshake, or 1006 when the     *)
(*    connection was lost.  close() on a CONNECTING socket fails the       *)
(*    connection; close() on an OPEN socket starts the closing handshake;  *)
(*    no message event is delivered unless the socket is OPEN.             *)
(*  - EventSource: after close() no event is delivered.                    *)
(* The constructor of WebSocket throws only for a malformed URL; wsBase is *)
(* derived from the API base by a scheme rewrite (lines 559-561), so the   *)
(* catch branch of line 719 is not taken.  activeTab is presentation       *)
(* state that no handler reads and is left out.                            *)
(***************************************************************************)
EXTENDS Naturals, Integers, Sequences, FiniteSets, TLC

VARIABLES idea, description, user, token, showAuthModal,
          running, done, lines, result, error, termCollapsed, wsStatus,
          idRef, connRef, conns,
          lineSrc, lastOp, wasRunning

inputVars   == <<idea, description, user, token, showAuthModal>>
sessionVars == <<running, done, lines, result, error, wsStatus>>
vars == <<idea, description, user, token, showAuthModal,
          running, done, lines, result, error, termCollapsed, wsStatus,
          idRef, connRef, conns, lineSrc, lastOp, wasRunning>>

(* ------------------------------ bounds --------------------------------- *)
\* transport objects created over a whole run
MaxConns == 3
\* value the id counter may reach, that is the entries appended over a run
MaxId == 1
\* the same, in the specification of the log and the progress inferencer
MaxLogId == 2
\* connections opened over a run of that specification
MaxLogConns == 2
\* calls of startResearch accepted over a run of the fair specification
MaxLiveStarts == 1

(* --------------------------- input domains ----------------------------- *)
\* text is a sequence of characters; " " is the whitespace character
Whitespace == {" "}
IdeaInputs == {<<>>, <<" ">>, <<" ", "a", " ">>}
DescInputs == {<<>>, <<"d", " ">>}
Tokens == {"t1"}
NoResult == "null"
\* parsed event payloads the worker may send: type, msg, result
Payloads ==
  { [type |-> "ping",     msg |-> "",             result |-> NoResult],
    [type |-> "complete", msg |-> "",             result |-> "r1"],
    [type |-> "error",    msg |-> "rate limited", result |-> NoResult],
    [type |-> "step",     msg |-> "Plan",         result |-> NoResult] }
\* the payloads of the specification of the log: entries of several kinds
\* and messages, and an error event without a message
LogPayloads ==
  { [type |-> "ping",      msg |-> "",                 result |-> NoResult],
    [type |-> "complete",  msg |-> "",                 result |-> "r1"],
    [type |-> "error",     msg |-> "",                 result |-> NoResult],
    [type |-> "error",     msg |-> "rate limited",     result |-> NoResult],
    [type |-> "step",      msg |-> "Plan Trends",      result |-> NoResult],
    [type |-> "step_done", msg |-> "SYNTHESIS Demand", result |-> NoResult],
    [type |-> "info",      msg |-> "1 / 6 Trends",     result |-> NoResult] }
\* a frame whose text JSON.parse rejects
Malformed == [type |-> "<malformed>", msg |-> "", result |-> NoResult]
\* items the history endpoint may return
HistoryItems == { [idea |-> <<" ", "a", " ">>, description |-> <<>>, result |-> "rh"] }
\* close codes a close event may carry
NormalClosure == 1000
CloseCodes == {NormalClosure, 1006}
\* the code of the close event of a connection that failed
FailedCode == CHOOSE c \in CloseCodes : c # NormalClosure

ConnLostLine == "  x Connection lost - is server running on :3001?"
ConnFailedMsg == "Server connection failed. Run: cd server && node index.js"
DefaultAgentError == "Agent error"

(* --------------------------- pure helpers ------------------------------ *)
RECURSIVE TrimStart(_)
TrimStart(s) ==
  IF s = <<>> THEN s
  ELSE IF Head(s) \in Whitespace THEN TrimStart(Tail(s)) ELSE s

RECURSIVE TrimEnd(_)
TrimEnd(s) ==
  IF s = <<>> THEN s
  ELSE IF s[Len(s)] \in Whitespace THEN TrimEnd(SubSeq(s, 1, Len(s) - 1)) ELSE s

\* String.prototype.trim
Trim(s) == TrimEnd(TrimStart(s))

\* the session status of the specification, derived from the flags
status ==
  IF running THEN "Running"
  ELSE IF done THEN "Done"
  ELSE IF error # "" THEN "Error"
  ELSE "Idle"

\* the transportKind of the specification
transportKind ==
  CASE wsStatus = "idle"  -> "None"
    [] wsStatus = "ws"    -> "Primary"
    [] wsStatus = "sse"   -> "Fallback"
    [] wsStatus = "error" -> "Failed"

\* connections that are connecting or open
Live(cs) == { i \in 1..Len(cs) : cs[i].state \in {"connecting", "open"} }

\* the fallback connections opened by the session whose primary is conns[i]
FallbacksOf(i) == { j \in 1..Len(conns) : conns[j].kind = "sse" /\ conns[j].owner = i }
(* ------------------------- connection objects -------------------------- *)
\* a WebSocket whose request frame is written when it is constructed
NewWs_SendsEarly(i, r) ==
  [kind |-> "ws", state |-> "connecting", owner |-> i, req |-> r,
   wsCompleted |-> FALSE, sent |-> <<r>>]

\* A WebSocket created by startResearch.  req holds the constants its
\* callbacks captured (ideaTrimmed, descTrimmed, token); sent are the frames
\* written to it; wsCompleted is the captured flag of line 697; owner is its
\* own index.
NewWs(i, r) ==
  [kind |-> "ws", state |-> "connecting", owner |-> i, req |-> r,
   wsCompleted |-> FALSE, sent |-> <<>>]

\* An EventSource created by fallbackToSSE on behalf of the startResearch
\* call that created conns[owner]; req are its URL parameters.  No handler
\* is installed for its "open" event, so the program cannot tell a
\* connecting EventSource from an open one: "open" stands for both, and a
\* message is delivered only once it is open.
NewEs(o, r) ==
  [kind |-> "sse", state |-> "open", owner |-> o, req |-> r,
   wsCompleted |-> FALSE, sent |-> <<>>]

\* WebSocket.close() / EventSource.close() on connection k of cs (0 is null)
CloseConn(cs, k) ==
  IF k = 0 THEN cs
  ELSE IF cs[k].kind = "ws"
       THEN [cs EXCEPT ![k].state =
               CASE @ = "connecting" -> "failing"
                 [] @ = "open"       -> "closing"
                 [] OTHER            -> @]
       ELSE [cs EXCEPT ![k].state = "closed"]

\* (mutant) fallbackToSSE reads the token of the latest render
FallbackToken_Latest(o) == token

\* the token fallbackToSSE puts in the URL: the one captured by the render
\* whose startResearch created connection o
FallbackToken(o) == conns[o].req.token

\* new URLSearchParams({ idea: ideaTrimmed, description: descTrimmed, token })
FallbackParams(o) ==
  [idea |-> conns[o].req.idea, description |-> conns[o].req.description,
   token |-> FallbackToken(o)]

\* fallbackToSSE, as a step on the list of connections
FallbackConns(cs, o) == Append(cs, NewEs(o, FallbackParams(o)))

(* ------------------------------- log ----------------------------------- *)
\* addLine with [entry] in place of [...prev, entry]
AddLine_Replace(type, msg, src) ==
  /\ idRef' = idRef + 1
  /\ lines' = <<[id |-> idRef + 1, type |-> type, msg |-> msg]>>
  /\ lineSrc' = <<src>>

\* addLine with [entry, ...prev] in place of [...prev, entry]
AddLine_Prepend(type, msg, src) ==
  /\ idRef' = idRef + 1
  /\ lines' = <<[id |-> idRef + 1, type |-> type, msg |-> msg]>> \o lines
  /\ lineSrc' = <<src>> \o lineSrc

\* addLine(raw) delivered by connection src
AddLine(type, msg, src) ==
  /\ idRef' = idRef + 1
  /\ lines' = Append(lines, [id |-> idRef + 1, type |-> type, msg |-> msg])
  /\ lineSrc' = Append(lineSrc, src)

\* lastOp names the controller operation that ran last: "start" (accepted),
\* "start_rejected" and "start_noauth" (the early returns of startResearch),
\* "reset", "openHistoryItem", "malformed" and "ping" for a message callback
\* called with such a frame, or "transport" for any other transport callback
\* and wasRunning is the value of running when it was called
Touch(op) ==
  /\ lastOp' = op
  /\ wasRunning' = running

(* ------------------------- progress inferencer ------------------------- *)
\* The text of a message, as the sequence of its words.  The words of the
\* vocabulary do not overlap, so a marker occurs in a message as a
\* substring exactly when it is one of its words.
Text(msg) ==
  CASE msg = ""                 -> <<>>
    [] msg = "Plan Trends"      -> <<"Plan", "Trends">>
    [] msg = "1 / 6 Trends"     -> <<"1 / 6", "Trends">>
    [] msg = "SYNTHESIS Demand" -> <<"SYNTHESIS", "Demand">>
    [] OTHER                    -> <<msg>>

\* msg.includes(marker)
Includes(msg, marker) == \E k \in 1..Len(Text(msg)) : Text(msg)[k] = marker

\* the cascade of lines 531-540, with the tests in another order
StageOf_TrendsFirst(msg) ==
  IF Includes(msg, "1 / 6") \/ Includes(msg, "Trends") THEN 1
  ELSE IF Includes(msg, "Plan") THEN 0
  ELSE IF Includes(msg, "2 / 6") \/ Includes(msg, "Demand") THEN 2
  ELSE IF Includes(msg, "3 / 6") \/ Includes(msg, "Adopter") THEN 3
  ELSE IF Includes(msg, "4 / 6") \/ Includes(msg, "Funder") THEN 4
  ELSE IF Includes(msg, "5 / 6") \/ Includes(msg, "Community") THEN 5
  ELSE IF Includes(msg, "6 / 6") \/ Includes(msg, "Web") THEN 6
  ELSE IF Includes(msg, "SYNTHESIS") THEN 7
  ELSE 0

\* the cascade of lines 531-540 over the message of the entry found
StageOf(msg) ==
  IF Includes(msg, "Plan") THEN 0
  ELSE IF Includes(msg, "1 / 6") \/ Includes(msg, "Trends") THEN 1
  ELSE IF Includes(msg, "2 / 6") \/ Includes(msg, "Demand") THEN 2
  ELSE IF Includes(msg, "3 / 6") \/ Includes(msg, "Adopter") THEN 3
  ELSE IF Includes(msg, "4 / 6") \/ Includes(msg, "Funder") THEN 4
  ELSE IF Includes(msg, "5 / 6") \/ Includes(msg, "Community") THEN 5
  ELSE IF Includes(msg, "6 / 6") \/ Includes(msg, "Web") THEN 6
  ELSE IF Includes(msg, "SYNTHESIS") THEN 7
  ELSE 0

\* the markers lines 531-538 test for each stage
StageMarkers(stage) ==
  CASE stage = 0 -> {"Plan"}
    [] stage = 1 -> {"1 / 6", "Trends"}
    [] stage = 2 -> {"2 / 6", "Demand"}
    [] stage = 3 -> {"3 / 6", "Adopter"}
    [] stage = 4 -> {"4 / 6", "Funder"}
    [] stage = 5 -> {"5 / 6", "Community"}
    [] stage = 6 -> {"6 / 6", "Web"}
    [] stage = 7 -> {"SYNTHESIS"}

\* l.type === "step" || l.type === "step_done"
IsStep(l) == l.type \in {"step", "step_done"}

\* index of the entry [...lines].reverse().find(...) returns, 0 for undefined
LastStep(ls) ==
  LET S == { k \in 1..Len(ls) : IsStep(ls[k]) }
  IN  IF S = {} THEN 0 ELSE CHOOSE k \in S : \A m \in S : m <= k

\* currentStep without its first test
currentStep_NoDoneCheck ==
  IF ~running THEN -1
  ELSE IF Len(lines) = 0 THEN 0
  ELSE IF LastStep(lines) = 0 THEN 0
  ELSE StageOf(lines[LastStep(lines)].msg)

\* the currentStep memo
currentStep ==
  IF done THEN 8
  ELSE IF ~running THEN -1
  ELSE IF Len(lines) = 0 THEN 0
  ELSE IF LastStep(lines) = 0 THEN 0
  ELSE StageOf(lines[LastStep(lines)].msg)

\* the lowest stage 0..7 one of whose markers occurs in msg, 0 if none does
LowestStage(msg) ==
  LET S == { st \in 0..7 : \E m \in StageMarkers(st) : Includes(msg, m) }
  IN  IF S = {} THEN 0 ELSE CHOOSE st \in S : \A u \in S : st <= u

(* ------------------------------ Init ----------------------------------- *)
Init ==
  /\ idea = <<>>
  /\ description = <<>>
  /\ user = "null"
  /\ token = ""
  /\ showAuthModal = FALSE
  /\ running = FALSE
  /\ done = FALSE
  /\ lines = <<>>
  /\ result = NoResult
  /\ error = ""
  /\ termCollapsed = FALSE
  /\ wsStatus = "idle"
  /\ idRef = 0
  /\ connRef = 0
  /\ conns = <<>>
  /\ lineSrc = <<>>
  /\ lastOp = "init"
  /\ wasRunning = FALSE

(* --------------------------- collaborators ----------------------------- *)
\* the form is rendered for a logged-in user while neither running nor
\* done (lines 862, 921)
FormShown == user # "null" /\ ~running /\ ~done

SetIdea(v) ==
  /\ FormShown
  /\ idea' = v
  /\ idea # v
  /\ UNCHANGED <<description, user, token, showAuthModal, running, done, lines,
                 result, error, termCollapsed, wsStatus, idRef, connRef, conns,
                 lineSrc, lastOp, wasRunning>>

SetDescription(v) ==
  /\ FormShown
  /\ description' = v
  /\ description # v
  /\ UNCHANGED <<idea, user, token, showAuthModal, running, done, lines,
                 result, error, termCollapsed, wsStatus, idRef, connRef, conns,
                 lineSrc, lastOp, wasRunning>>

\* submitAuth, at the arrival of a successful response
SubmitAuth(t) ==
  /\ user = "null"
  /\ token' = t
  /\ user' = "u1"
  /\ showAuthModal' = FALSE
  /\ UNCHANGED <<idea, description, running, done, lines, result, error,
                 termCollapsed, wsStatus, idRef, connRef, conns, lineSrc,
                 lastOp, wasRunning>>

Logout ==
  /\ user # "null"
  /\ user' = "null"
  /\ token' = ""
  /\ UNCHANGED <<idea, description, showAuthModal, running, done, lines, result,
                 error, termCollapsed, wsStatus, idRef, connRef, conns, lineSrc,
                 lastOp, wasRunning>>

\* openHistoryItem without setRunning(false)
OpenHistoryItem_KeepsRunning(item) ==
  /\ token # ""
  /\ idea' = item.idea
  /\ description' = item.description
  /\ result' = item.result
  /\ done' = TRUE
  /\ termCollapsed' = TRUE
  /\ error' = ""
  /\ Touch("openHistoryItem")
  /\ UNCHANGED <<user, token, showAuthModal, lines, wsStatus, idRef, connRef,
                 conns, lineSrc, running>>

\* openHistoryItem, at the arrival of a successful response
OpenHistoryItem(item) ==
  /\ token # ""
  /\ idea' = item.idea
  /\ description' = item.description
  /\ result' = item.result
  /\ done' = TRUE
  /\ running' = FALSE
  /\ termCollapsed' = TRUE
  /\ error' = ""
  /\ Touch("openHistoryItem")
  /\ UNCHANGED <<user, token, showAuthModal, lines, wsStatus, idRef, connRef,
                 conns, lineSrc>>
(* ------------------------- session controller -------------------------- *)
\* (mutant) the guard without the running check
StartRejected_IdeaOnly == Trim(idea) = <<>>

\* the guard of line 691
StartRejected == Trim(idea) = <<>> \/ running

\* the request constants captured by one startResearch call
Captured == [idea |-> Trim(idea), description |-> Trim(description), token |-> token]

StartResearch ==
  IF user = "null"
  THEN /\ showAuthModal' = TRUE
       /\ Touch("start_noauth")
       /\ UNCHANGED <<idea, description, user, token, running, done, lines,
                      result, error, termCollapsed, wsStatus, idRef, connRef,
                      conns, lineSrc>>
  ELSE IF StartRejected
  THEN /\ Touch("start_rejected")
       /\ UNCHANGED <<idea, description, user, token, showAuthModal, running,
                      done, lines, result, error, termCollapsed, wsStatus,
                      idRef, connRef, conns, lineSrc>>
  ELSE /\ Len(conns) < MaxConns
       /\ running' = TRUE
       /\ done' = FALSE
       /\ lines' = <<>>
       /\ lineSrc' = <<>>
       /\ result' = NoResult
       /\ error' = ""
       /\ termCollapsed' = FALSE
       /\ conns' = Append(conns, NewWs(Len(conns) + 1, Captured))
       /\ connRef' = Len(conns) + 1
       /\ Touch("start")
       /\ UNCHANGED <<idea, description, user, token, showAuthModal, wsStatus,
                      idRef>>

\* handleEvent without its first line
Ignored_None(data) == FALSE

\* the events handleEvent returns on at once (line 666)
Ignored(data) == data.type = "ping"

\* String(data.msg), without the default
ErrorText_Raw(msg) == msg

\* String(data.msg || "Agent error")
ErrorText(msg) == IF msg = "" THEN DefaultAgentError ELSE msg

\* handleEvent(data) called by a callback of connection src; cs is the list
\* of connections as the caller left it
HandleEvent(data, src, cs) ==
  CASE Ignored(data) ->
         /\ conns' = cs
         /\ UNCHANGED <<running, done, lines, lineSrc, result, error,
                        termCollapsed, idRef>>
    [] data.type = "complete" ->
         /\ result' = data.result
         /\ done' = TRUE
         /\ running' = FALSE
         /\ termCollapsed' = TRUE
         /\ conns' = CloseConn(cs, connRef)
         /\ UNCHANGED <<lines, lineSrc, error, idRef>>
    [] data.type = "error" ->
         /\ error' = ErrorText(data.msg)
         /\ running' = FALSE
         /\ conns' = cs
         /\ UNCHANGED <<done, lines, lineSrc, result, termCollapsed, idRef>>
    [] OTHER ->
         /\ AddLine(data.type, data.msg, src)
         /\ conns' = cs
         /\ UNCHANGED <<running, done, result, error, termCollapsed>>

\* ws.onopen
WsOpen(i) ==
  /\ conns[i].kind = "ws"
  /\ conns[i].state = "connecting"
  /\ wsStatus' = "ws"
  /\ conns' = [conns EXCEPT ![i].state = "open",
                            ![i].sent = Append(@, conns[i].req)]
  /\ Touch("transport")
  /\ UNCHANGED <<idea, description, user, token, showAuthModal, running, done,
                 lines, result, error, termCollapsed, idRef, connRef, lineSrc>>

\* catch blocks that report the frame as a failure of the session
OnParseError_Surface ==
  /\ error' = "Malformed event"
  /\ running' = FALSE
  /\ UNCHANGED <<done, lines, lineSrc, result, termCollapsed, idRef, conns>>

\* the catch blocks of ws.onmessage and es.onmessage: the frame is dropped
OnParseError ==
  UNCHANGED <<running, done, lines, lineSrc, result, error, termCollapsed,
              idRef, conns>>

\* what a message callback was called with
Received(data) ==
  IF data = Malformed THEN "malformed"
  ELSE IF data.type = "ping" THEN "ping"
  ELSE "transport"

\* ws.onmessage
WsMessage(i, data) ==
  /\ conns[i].kind = "ws"
  /\ conns[i].state = "open"
  /\ IF data = Malformed
     THEN OnParseError
     ELSE HandleEvent(data, i,
            IF data.type = "complete"
            THEN [conns EXCEPT ![i].wsCompleted = TRUE] ELSE conns)
  /\ Touch(Received(data))
  /\ UNCHANGED <<idea, description, user, token, showAuthModal, wsStatus,
                 connRef>>

\* a ws.onclose that never falls back
OnCloseConns_NoFallback(cs, i, code) == cs

\* ws.onclose(e): the list of connections after the handler
OnCloseConns(cs, i, code) ==
  IF ~cs[i].wsCompleted /\ code # NormalClosure THEN FallbackConns(cs, i) ELSE cs

\* ws.onerror: ws.close() finds the socket closed; then fallbackToSSE
OnErrorConns(cs, i) == FallbackConns(cs, i)

\* fallbackToSSE leaves connRef at the EventSource it created last
AfterFallbacks(cs) ==
  /\ conns' = cs
  /\ IF Len(cs) > Len(conns)
     THEN wsStatus' = "sse" /\ connRef' = Len(cs)
     ELSE UNCHANGED <<wsStatus, connRef>>

\* the connection fails: "error", then "close" with the failure code
WsFail(i) ==
  /\ conns[i].kind = "ws"
  /\ conns[i].state \in {"connecting", "open", "failing"}
  /\ LET c0 == [conns EXCEPT ![i].state = "closed"]
         c2 == OnCloseConns(OnErrorConns(c0, i), i, FailedCode)
     IN  /\ Len(c2) <= MaxConns
         /\ AfterFallbacks(c2)
  /\ Touch("transport")
  /\ UNCHANGED <<idea, description, user, token, showAuthModal, running, done,
                 lines, result, error, termCollapsed, idRef, lineSrc>>

\* the connection closes without an error event: "close" with a code
WsClose(i, code) ==
  /\ conns[i].kind = "ws"
  /\ conns[i].state \in {"open", "closing"}
  /\ LET c0 == [conns EXCEPT ![i].state = "closed"]
         c1 == OnCloseConns(c0, i, code)
     IN  /\ Len(c1) <= MaxConns
         /\ AfterFallbacks(c1)
  /\ Touch("transport")
  /\ UNCHANGED <<idea, description, user, token, showAuthModal, running, done,
                 lines, result, error, termCollapsed, idRef, lineSrc>>

\* es.onmessage
EsMessage(j, data) ==
  /\ conns[j].kind = "sse"
  /\ conns[j].state = "open"
  /\ IF data = Malformed
     THEN OnParseError
     ELSE HandleEvent(data, j, conns)
  /\ Touch(Received(data))
  /\ UNCHANGED <<idea, description, user, token, showAuthModal, wsStatus,
                 connRef>>

\* (mutant) es.onerror without es.close(): the EventSource reconnects
EsAfterError_NoClose == "open"

\* the state es.onerror leaves its EventSource in: es.close()
EsAfterError == "closed"

\* es.onerror: the list of connections after the handler
EsOnErrorConns(j) == [conns EXCEPT ![j].state = EsAfterError]

\* es.onerror
EsError(j) ==
  /\ conns[j].kind = "sse"
  /\ conns[j].state = "open"
  /\ AddLine("error", ConnLostLine, j)
  /\ running' = FALSE
  /\ wsStatus' = "error"
  /\ conns' = EsOnErrorConns(j)
  /\ error' = ConnFailedMsg
  /\ Touch("transport")
  /\ UNCHANGED <<idea, description, user, token, showAuthModal, done, result,
                 termCollapsed, connRef>>

\* (mutant) reset without closing the transport
ResetConns_NoClose == conns

\* reset: the list of connections after closing connRef.current
ResetConns == CloseConn(conns, connRef)

\* reset without setResult(null)
Reset_KeepsResult ==
  /\ conns' = ResetConns
  /\ running' = FALSE
  /\ done' = FALSE
  /\ lines' = <<>>
  /\ lineSrc' = <<>>
  /\ error' = ""
  /\ idea' = <<>>
  /\ description' = <<>>
  /\ wsStatus' = "idle"
  /\ Touch("reset")
  /\ UNCHANGED <<user, token, showAuthModal, termCollapsed, idRef, connRef,
                 result>>

\* reset
Reset ==
  /\ conns' = ResetConns
  /\ running' = FALSE
  /\ done' = FALSE
  /\ lines' = <<>>
  /\ lineSrc' = <<>>
  /\ result' = NoResult
  /\ error' = ""
  /\ idea' = <<>>
  /\ description' = <<>>
  /\ wsStatus' = "idle"
  /\ Touch("reset")
  /\ UNCHANGED <<user, token, showAuthModal, termCollapsed, idRef, connRef>>

(* ------------------------------- Next ---------------------------------- *)
\* Next drives the session controller: start and reset may be called in any
\* state, every transport callback may fire whenever its connection allows
\* it, and the collaborators that touch the session (the idea field, login,
\* a history item being opened) act in between.  NextRequest below adds the
\* description field and logout, which matter to the contents of the
\* requests only.
Conns == 1..Len(conns)

\* the step leaves the id counter within cap
IdWithin(cap) == idRef' <= cap

\* the payloads handleEvent acts on; the frames it ignores and the frames
\* that do not parse are those of SpecFrames
Handled == { p \in Payloads : ~Ignored(p) }

Next ==
  \/ \E v \in IdeaInputs : SetIdea(v)
  \/ \E t \in Tokens : SubmitAuth(t)
  \/ \E item \in HistoryItems : OpenHistoryItem(item)
  \/ StartResearch
  \/ \E i \in Conns : WsOpen(i)
  \/ \E i \in Conns, data \in Handled :
        WsMessage(i, data) /\ IdWithin(MaxId)
  \/ \E i \in Conns : WsFail(i)
  \/ \E i \in Conns, code \in CloseCodes : WsClose(i, code)
  \/ \E j \in Conns, data \in Handled :
        EsMessage(j, data) /\ IdWithin(MaxId)
  \/ \E j \in Conns : EsError(j) /\ IdWithin(MaxId)
  \/ Reset

Spec == Init /\ [][Next]_vars

\* The requests of a session: the whole form and the login state vary
\* (description, logout), and the worker reports failures only.
RequestPayloads == { p \in Payloads : p.type = "error" }

NextRequest ==
  \/ \E v \in IdeaInputs : SetIdea(v)
  \/ \E v \in DescInputs : SetDescription(v)
  \/ \E t \in Tokens : SubmitAuth(t)
  \/ Logout
  \/ StartResearch
  \/ \E i \in Conns : WsOpen(i)
  \/ \E i \in Conns, data \in RequestPayloads : WsMessage(i, data)
  \/ \E i \in Conns : WsFail(i)
  \/ \E i \in Conns, code \in CloseCodes : WsClose(i, code)
  \/ \E j \in Conns, data \in RequestPayloads : EsMessage(j, data)
  \/ \E j \in Conns : EsError(j) /\ IdWithin(MaxId)
  \/ Reset

SpecRequest == Init /\ [][NextRequest]_vars

\* The session over the primary transport alone, with the payloads of
\* LogPayloads: the log, its ids and the stage inferred from it.
NextLog ==
  \/ \E v \in IdeaInputs : SetIdea(v)
  \/ \E t \in Tokens : SubmitAuth(t)
  \/ StartResearch /\ Len(conns') <= MaxLogConns
  \/ \E i \in Conns : WsOpen(i)
  \/ \E i \in Conns, data \in LogPayloads \cup {Malformed} :
        WsMessage(i, data) /\ IdWithin(MaxLogId)
  \/ Reset

SpecLog == Init /\ [][NextLog]_vars

\* The session over both transports with every frame a transport may
\* deliver, pings and frames that do not parse included; one fallback.
NextFrames ==
  \/ \E v \in IdeaInputs : SetIdea(v)
  \/ \E t \in Tokens : SubmitAuth(t)
  \/ StartResearch /\ Len(conns') <= MaxLogConns
  \/ \E i \in Conns : WsOpen(i)
  \/ \E i \in Conns, data \in Payloads \cup {Malformed} :
        WsMessage(i, data) /\ IdWithin(MaxId)
  \/ \E i \in Conns, code \in CloseCodes :
        WsClose(i, code) /\ Len(conns') <= MaxLogConns
  \/ \E j \in Conns, data \in Payloads \cup {Malformed} :
        EsMessage(j, data) /\ IdWithin(MaxId)
  \/ \E j \in Conns : EsError(j) /\ IdWithin(MaxId)
  \/ Reset

SpecFrames == Init /\ [][NextFrames]_vars

\* connection i delivers a complete or error event, or terminates
Resolve(i) ==
  /\ i \in Conns
  /\ \/ \E p \in { q \in Payloads : q.type \in {"complete", "error"} } :
          WsMessage(i, p) \/ EsMessage(i, p)
     \/ WsFail(i)
     \/ \E code \in CloseCodes : WsClose(i, code)
     \/ EsError(i)

\* One session over both transports.  Every callback the browser has
\* queued is eventually run, and every connection eventually delivers a
\* complete or error event or terminates.
NextLive ==
  \/ \E v \in IdeaInputs : SetIdea(v)
  \/ \E t \in Tokens : SubmitAuth(t)
  \/ StartResearch /\ Len(conns') <= MaxLiveStarts
  \/ \E i \in Conns : WsOpen(i)
  \/ \E i \in Conns, data \in Handled :
        WsMessage(i, data) /\ IdWithin(MaxId)
  \/ \E i \in Conns : WsFail(i)
  \/ \E i \in Conns, code \in CloseCodes : WsClose(i, code)
  \/ \E j \in Conns, data \in Handled :
        EsMessage(j, data) /\ IdWithin(MaxId)
  \/ \E j \in Conns : EsError(j)
  \/ Reset

SpecLive ==
  /\ Init
  /\ [][NextLive]_vars
  /\ \A i \in 1..MaxConns : WF_vars(Resolve(i))

(* =============================== claims ================================ *)
\* results a complete event may carry
CompleteResults == { p.result : p \in { q \in Payloads : q.type = "complete" } }

\* C1: when the primary transport fails before a complete event was
\* observed - reported by its error callback followed by its close callback,
\* or by an abnormal close alone - the session has opened exactly one
\* fallback connection.
C1_FallbackOpenedExactlyOnce ==
  [][\A i \in Conns :
       (~conns[i].wsCompleted /\ (WsFail(i) \/ WsClose(i, FailedCode)))
         => Cardinality(FallbacksOf(i))' = 1]_vars

\* C2: reset() never triggers the fallback.  Status is Idle only before the
\* first start() and from a reset() to the next start(); in those states no
\* step opens a fallback connection or moves transportKind away from None.
C2_ResetNeverTriggersFallback ==
  [][status = "Idle"
       => /\ transportKind' = "None"
          /\ \A j \in 1..Len(conns') : conns'[j].kind = "sse" => j \in Conns]_vars

\* C3: after reset() the events and failure notifications of the
\* connections opened before it are discarded: while status is Idle a
\* transport callback leaves status Idle and the log empty.
C3_StaleEventsDiscardedAfterReset ==
  [][(status = "Idle" /\ lastOp' = "transport")
       => (status' = "Idle" /\ lines' = <<>>)]_vars

\* C4: once a complete event has made the session Done, no later transport
\* event or transport failure changes status, log, result, errorMessage or
\* transportKind.
C4_NothingChangesAfterComplete ==
  [][(status = "Done" /\ result \in CompleteResults /\ lastOp' = "transport")
       => UNCHANGED <<running, done, lines, result, error, wsStatus>>]_vars

\* C5: in every reachable state at most one transport connection is
\* connecting or open.
C5_AtMostOneConnection == Cardinality(Live(conns)) <= 1

\* C6: after the worker's error event has put the session in Error, no
\* transport connection is opened except by an accepted start().
C6_ErrorEventNeverRetried ==
  [][(status = "Error" /\ error # ConnFailedMsg /\ Len(conns') > Len(conns))
       => lastOp' = "start"]_vars

\* C7: when the fallback transport errors while the session is Running, the
\* session becomes Error with the connectivity-failure message, transportKind
\* becomes Failed, the fallback connection is closed and the handler opens no
\* further connection.
C7_FallbackFailureIsTerminal ==
  [][\A j \in Conns :
       (running /\ conns[j].kind = "sse" /\ EsError(j))
         => /\ status' = "Error"
            /\ error' = ConnFailedMsg /\ error' # ""
            /\ transportKind' = "Failed"
            /\ conns'[j].state = "closed"
            /\ Len(conns') = Len(conns)]_vars

\* a fallback connection has failed while the session was Running
C7_Witness ==
  /\ lastOp = "transport" /\ wasRunning
  /\ status = "Error" /\ error = ConnFailedMsg /\ wsStatus = "error"
  /\ \E j \in Conns : conns[j].kind = "sse" /\ conns[j].state = "closed"

\* C8: the request issued over a fallback connection carries the idea,
\* context and credential captured by the start() that opened the session's
\* primary connection, which are those of every frame sent on the primary.
C8_FallbackRequestIdentical ==
  \A j \in Conns :
    conns[j].kind = "sse"
      => LET i == conns[j].owner
         IN  /\ conns[j].req = conns[i].req
             /\ \A k \in 1..Len(conns[i].sent) : conns[i].sent[k] = conns[j].req

\* a fallback request issued after the primary request was sent and after
\* the idea, the description and the token of the page have all changed
C8_Witness ==
  \E j \in Conns :
    /\ conns[j].kind = "sse"
    /\ conns[conns[j].owner].sent = <<conns[j].req>>
    /\ conns[j].req.description # <<>>
    /\ conns[j].req.idea # Trim(idea)
    /\ conns[j].req.description # Trim(description)
    /\ conns[j].req.token # token

\* C9: after reset(), called in any state, status is Idle, the log is empty,
\* the result is absent, errorMessage is empty, transportKind is None and
\* close() has been called on the current transport (it is neither
\* connecting nor open); a second reset() would change none of these.
C9_ResetPostState ==
  lastOp = "reset"
    => /\ status = "Idle"
       /\ lines = <<>>
       /\ result = NoResult
       /\ error = ""
       /\ transportKind = "None"
       /\ connRef \notin Live(conns)
       /\ CloseConn(conns, connRef) = conns

\* reset() was called while Running with a live primary connection
C9_Witness ==
  /\ lastOp = "reset" /\ wasRunning
  /\ connRef # 0 /\ conns[connRef].state \in {"failing", "closing"}

\* C10: start() called while status is Running, or with an idea that is
\* empty after trimming, changes none of status, log, result, errorMessage
\* and transportKind and opens no connection.
C10_RejectedStartIsNoOp ==
  [][(StartResearch /\ (running \/ Trim(idea) = <<>>))
       => UNCHANGED <<running, done, lines, result, error, wsStatus, conns,
                      connRef>>]_vars

\* start() was called while Running with a non-empty idea
C10_Witness ==
  /\ lastOp = "start_rejected" /\ wasRunning
  /\ running /\ Trim(idea) # <<>>

\* C11 as stated: an error event with message m received while Running
\* makes status Error and errorMessage m, and leaves the log as it was.
C11_ErrorEventStoresMessage ==
  [][\A i \in Conns, p \in LogPayloads :
       (p.type = "error" /\ status = "Running" /\ WsMessage(i, p))
         => (status' = "Error" /\ error' = p.msg /\ lines' = lines)]_vars

\* C11, amended: an error event received while Running makes status Error
\* and leaves the log as it was; errorMessage is the message of the event
\* when it has one and the text "Agent error" when its message is empty.
C11_ErrorEventStoresText ==
  [][\A i \in Conns, p \in LogPayloads :
       (p.type = "error" /\ status = "Running" /\ WsMessage(i, p))
         => /\ status' = "Error"
            /\ error' = (IF p.msg = "" THEN DefaultAgentError ELSE p.msg)
            /\ lines' = lines]_vars

\* an error event without a message has ended a running session that had
\* logged an entry
C11_Witness ==
  /\ lastOp = "transport"
  /\ wasRunning
  /\ status = "Error"
  /\ error = DefaultAgentError
  /\ Len(lines) > 0

\* C12: in every reachable state the result is present if and only if
\* status is Done (every complete event carries a result).
C12_ResultIffDone == (result # NoResult) <=> (status = "Done")

\* a complete event has ended a running session and its result is stored
C12_Witness ==
  /\ lastOp = "transport"
  /\ wasRunning
  /\ status = "Done"
  /\ result \in CompleteResults

\* C13: log entry ids are session-local and equal the 1-based append
\* order: in every session, a later one included, the k-th entry of the
\* session's log has id k.
C13_IdsEqualAppendOrder == \A k \in 1..Len(lines) : lines[k].id = k

\* C14: in every reachable state the ids of the entries of the log are
\* strictly increasing from the first entry to the last.
C14_IdsStrictlyIncreasing ==
  \A k \in 1..Len(lines), m \in 1..Len(lines) :
     k < m => lines[k].id < lines[m].id

\* the running session has appended two entries to its log
C14_Witness ==
  /\ running
  /\ Len(lines) >= 2
  /\ \A k \in 1..Len(lines) : lineSrc[k] = connRef

\* C15: the log never holds an entry of kind ping or complete, and
\* receiving a ping event leaves status, log, result, errorMessage,
\* transportKind and the derived stage unchanged.
C15_PingIgnored ==
  /\ [](\A k \in 1..Len(lines) : lines[k].type \notin {"ping", "complete"})
  /\ [][\A i \in Conns, p \in Payloads :
          (p.type = "ping" /\ (WsMessage(i, p) \/ EsMessage(i, p)))
            => UNCHANGED <<status, lines, result, error, transportKind,
                           currentStep>>]_vars

\* a ping arrived over the fallback while the session was running with an
\* entry in its log
C15_Witness ==
  /\ lastOp = "ping"
  /\ running
  /\ wsStatus = "sse"
  /\ Len(lines) > 0

\* C16: a payload that does not parse, received on either transport, is
\* dropped: status, log, result, errorMessage and transportKind are
\* unchanged and the connection stays open with its handlers, so that the
\* events that follow are processed as before.
C16_MalformedDropped ==
  [][\A i \in Conns :
       (WsMessage(i, Malformed) \/ EsMessage(i, Malformed))
         => /\ UNCHANGED <<status, lines, result, error, transportKind>>
            /\ conns' = conns
            /\ conns'[i].state = "open"]_vars

\* a frame that does not parse arrived on the current connection of a
\* running session that had logged an entry
C16_Witness ==
  /\ lastOp = "malformed"
  /\ running
  /\ Len(lines) > 0
  /\ connRef # 0
  /\ conns[connRef].state = "open"

\* C17: when the primary connection fails or closes with an abnormal code
\* before complete while the session is Running, the session stays Running
\* with transportKind Fallback; when the fallback then delivers a complete
\* event the session is Done, transportKind is still Fallback and the
\* stage is 8.
C17_FallbackCompletesSession ==
  /\ [][\A i \in Conns :
          (/\ status = "Running"
           /\ ~conns[i].wsCompleted
           /\ (WsFail(i) \/ WsClose(i, FailedCode)))
            => (status' = "Running" /\ transportKind' = "Fallback")]_vars
  /\ [][\A j \in Conns, p \in Payloads :
          (/\ p.type = "complete"
           /\ status = "Running"
           /\ transportKind = "Fallback"
           /\ EsMessage(j, p))
            => /\ status' = "Done"
               /\ transportKind' = "Fallback"
               /\ currentStep' = 8]_vars

\* the fallback of the running session has delivered its complete event
C17_Witness ==
  /\ lastOp = "transport"
  /\ wasRunning
  /\ status = "Done"
  /\ transportKind = "Fallback"
  /\ currentStep = 8
  /\ connRef # 0
  /\ conns[connRef].kind = "sse"
  /\ conns[connRef].state = "closed"
  /\ conns[conns[connRef].owner].state = "closed"

\* C18: the inferencer returns 8 exactly when status is Done, -1 exactly
\* when status is neither Done nor Running, 0 when status is Running and
\* the log holds no step or step_done entry, and always a value of -1..8.
C18_StageOfStatus ==
  /\ (currentStep = 8) <=> (status = "Done")
  /\ (currentStep = -1) <=> (status \notin {"Done", "Running"})
  /\ (status = "Running" /\ LastStep(lines) = 0) => currentStep = 0
  /\ currentStep \in -1..8

\* the session is running and its log holds an entry, none of them a step
C18_Witness ==
  /\ status = "Running"
  /\ Len(lines) > 0
  /\ LastStep(lines) = 0
  /\ currentStep = 0

\* C19: while Running the stage is the lowest stage whose marker occurs in
\* the message of the most recent step or step_done entry, 0 when none
\* occurs, and an entry of another kind appended to the log does not
\* change it.
C19_StageFromLastStep ==
  /\ []((status = "Running" /\ LastStep(lines) # 0)
          => currentStep = LowestStage(lines[LastStep(lines)].msg))
  /\ [][(/\ status = "Running" /\ status' = "Running"
          /\ Len(lines') = Len(lines) + 1
          /\ SubSeq(lines', 1, Len(lines)) = lines
          /\ ~IsStep(lines'[Len(lines')]))
            => currentStep' = currentStep]_vars

\* the running session logged a step entry whose message carries the
\* markers of two stages, and then an entry of another kind with a marker
C19_Witness ==
  /\ status = "Running"
  /\ Len(lines) = 2
  /\ lines[1].type = "step" /\ lines[1].msg = "Plan Trends"
  /\ lines[2].type = "info" /\ lines[2].msg = "1 / 6 Trends"
  /\ currentStep = 0

\* C20: status becomes Done only by a complete event received while
\* Running: once an error event has put the session in Error, a complete
\* event arriving on the transport, which is still open, neither changes
\* status to Done nor stores a result.
C20_NoDoneAfterError ==
  [][\A p \in Payloads :
       (/\ p.type = "complete"
        /\ status = "Error"
        /\ error # ConnFailedMsg
        /\ connRef # 0
        /\ (WsMessage(connRef, p) \/ EsMessage(connRef, p)))
         => (status' # "Done" /\ result' = NoResult)]_vars

\* C21: an event arriving from a connection that is not the current one
\* (connRef) is never appended to the log and never changes status or
\* result.
C21_StaleConnectionDiscarded ==
  [][\A i \in Conns, p \in Payloads :
       (i # connRef /\ (WsMessage(i, p) \/ EsMessage(i, p)))
         => UNCHANGED <<lines, status, result>>]_vars

\* the connections of the session connRef belongs to
SessionConns ==
  IF connRef = 0 THEN {}
  ELSE { j \in Conns : conns[j].owner = conns[connRef].owner }

\* C22: processing a complete event closes the transport: in every state
\* with status Done by a complete event, no connection of the session is
\* connecting or open.
C22_DoneClosesTransport ==
  (status = "Done" /\ result \in CompleteResults)
    => SessionConns \cap Live(conns) = {}

C24_LogAppendOnly ==
  [][(~StartResearch /\ ~Reset)
       => \/ lines' = lines /\ lineSrc' = lineSrc
          \/ /\ Len(lines') = Len(lines) + 1
             /\ SubSeq(lines', 1, Len(lines)) = lines
             /\ SubSeq(lineSrc', 1, Len(lineSrc)) = lineSrc
             /\ Len(lineSrc') = Len(lines')]_vars

\* the log holds entries delivered by two connections
C24_Witness ==
  /\ Len(lines) = 2
  /\ lineSrc[1] # lineSrc[2]

\* C25: collaborator operations (opening a history item, login) leave
\* status, log, result, errorMessage and transportKind unchanged.
C25_CollaboratorsLeaveSession ==
  [][((\E item \in HistoryItems : OpenHistoryItem(item))
        \/ (\E t \in Tokens : SubmitAuth(t)))
       => UNCHANGED <<status, lines, result, error, transportKind>>]_vars

\* C26: under fair delivery of transport callbacks, with every connection
\* eventually delivering a complete or error event or terminating, every
\* started session eventually leaves Running.
C26_SessionResolves == (status = "Running") ~> (status # "Running")

\* C27: whenever status is Running, some transport connection is
\* connecting or open.
C27_RunningHasConnection == (status = "Running") => Live(conns) # {}

\* C28: the running flag and the done flag are never both true, so status
\* is exactly one of Idle, Running, Done and Error.
C28_RunningDoneExclusive ==
  /\ ~(running /\ done)
  /\ status \in {"Idle", "Running", "Done", "Error"}
  /\ (status = "Running") <=> running
  /\ (status = "Done") <=> done

\* a history item was opened while a session was running
C28_Witness ==
  /\ lastOp = "openHistoryItem"
  /\ wasRunning
  /\ done
  /\ ~running

\* C29: errorMessage is non-empty only when status is Error.
C29_ErrorMessageOnlyInError == (error # "") => (status = "Error")

\* C30: transportKind is Failed only when status is Error.
C30_FailedOnlyInError == (transportKind = "Failed") => (status = "Error")

====
